---- MODULE Spec2Model ----
(***************************************************************************)
(* Model of python/sparknlp/ocr.py (the OcrHelper proxy and the Coordinate *)
(* value object) and of python/tensorflow/spellchecker/run.py (the         *)
(* spell-checker training / inference script).                             *)
(***************************************************************************)
EXTENDS Integers, Sequences, FiniteSets, TLC

VARIABLES
    helper,      \* the OcrHelper proxy: its remote object handle
    coords,      \* the Coordinate objects constructed so far (local side)
    jvmCoords,   \* the remote Coordinate instances: constructor arguments
    remote,      \* state of the remote OcrHelper: one stored value per option
    lastCall,    \* the most recent proxy call, as the caller observed it
    lastSet,     \* per option, the value of the latest set<Option> that returned
    ncalls,      \* number of operations performed so far
    pc,          \* run.py: next statement of the script
    TRAIN,       \* run.py: the TRAIN flag
    sizes,       \* run.py: num_train_samples, num_valid_samples, vocab_size
    session,     \* run.py: the tf.Session of the enclosing with-block
    graph,       \* run.py: the default graph (model built in it, or empty)
    params,      \* run.py: state of the model variables in the session
    ckpt,        \* run.py: whether a checkpoint exists at model_path
    log          \* run.py: the statements completed so far, in order

ocrVars    == <<helper, coords, jvmCoords, remote, lastCall, lastSet, ncalls>>
scriptVars == <<pc, TRAIN, sizes, session, graph, params, ckpt, log>>
vars       == <<helper, coords, jvmCoords, remote, lastCall, lastSet, ncalls,
                pc, TRAIN, sizes, session, graph, params, ckpt, log>>

----------------------------------------------------------------------------
(* Bounds *)
MaxCalls == 3
MaxValue == 2
MaxCoords == 2
MaxCoordSeed == 2
MaxLines == 2

----------------------------------------------------------------------------
(* Values that cross the language boundary *)

OcrHelperClass  == "com.johnsnowlabs.nlp.util.io.OcrHelper"
CoordinateClass == "com.johnsnowlabs.nlp.util.io.schema.Coordinate"

\* Objects a caller may pass as `spark`: a SparkSession, an object of another
\* type that carries a _jsparkSession attribute, and a plain string.
SparkArgs == {"spark", "spark2", "duck", "text"}
TypeOf(s) == CASE s \in {"spark", "spark2"} -> "SparkSession"
               [] s = "duck"  -> "Duck"
               [] OTHER       -> "str"
HasJSparkSession(s) == s \in {"spark", "spark2", "duck"}
JSparkSession(s) == CASE s = "spark"  -> "jspark"
                      [] s = "spark2" -> "jspark2"
                      [] s = "duck"   -> "jduck"
                      [] OTHER        -> "none"

Paths        == {"in.pdf"}
OptionValues == 1 .. MaxValue
Default      == 0
JavaFault    == "Py4JJavaError"
NoCall       == [method |-> "none", args |-> <<>>, remote |-> <<>>,
                 outcome |-> "none", value |-> "none"]

\* run.py: a size not yet read, and the default graph with no model in it.
Unread == -1
EmptyGraph == [built |-> FALSE, vocab_size |-> Unread,
               num_train_samples |-> Unread, num_valid_samples |-> Unread]

\* The six constructor inputs of a Coordinate, pairwise distinct.
CoordInputs == { <<k, k + 10, k + 20, k + 30, k + 40, k + 50>> : k \in 1 .. MaxCoordSeed }

\* Remote methods of the JVM OcrHelper and the option each reads or writes.
RemoteSetters == [setPreferredMethod |-> "PreferredMethod",
                  setFallbackMethod |-> "FallbackMethod",
                  setMinSizeBeforeFallback |-> "MinSizeBeforeFallback",
                  setEngineMode |-> "EngineMode",
                  setPageSegMode |-> "PageSegMode",
                  setPageIteratorLevel |-> "PageIteratorLevel",
                  setScalingFactor |-> "ScalingFactor",
                  setSplitPages |-> "SplitPages",
                  setSplitRegions |-> "SplitRegions"]
RemoteGetters == [getPreferredMethod |-> "PreferredMethod",
                  getFallbackMethod |-> "FallbackMethod",
                  getMinSizeBeforeFallback |-> "MinSizeBeforeFallback",
                  getEngineMode |-> "EngineMode",
                  getPageSegMode |-> "PageSegMode",
                  getPageIteratorLevel |-> "PageIteratorLevel",
                  getScalingFactor |-> "ScalingFactor",
                  getSplitPages |-> "SplitPages",
                  getSplitRegions |-> "SplitRegions"]
Options == { RemoteSetters[m] : m \in DOMAIN RemoteSetters }

\* What the remote object answers when the call does not fault.
RemoteResult(method, args, store) ==
    CASE method \in DOMAIN RemoteGetters -> store[RemoteGetters[method]]
      [] method = "createMap"            -> "JavaMap"
      [] method = "createDataset"        -> "JavaDataFrame"
      [] OTHER                           -> "void"

\* The remote object's options after a call that does not fault.
RemoteStore(method, args, store) ==
    IF method \in DOMAIN RemoteSetters
    THEN [store EXCEPT ![RemoteSetters[method]] = args[1]]
    ELSE store

----------------------------------------------------------------------------
(* OcrHelper *)

\* The caller's view of set<Option>(v) returning.
Recorded(method, args, faulted) ==
    IF method \in DOMAIN RemoteSetters /\ ~faulted
    THEN [lastSet EXCEPT ![RemoteSetters[method]] = args[1]]
    ELSE lastSet

\* One remote invocation on the helper's handle and what it leaves behind.
Invocation(rmethod, rargs, fault) ==
    [target |-> helper.java_obj, method |-> rmethod, args |-> rargs,
     result |-> IF fault THEN [ok |-> FALSE, val |-> JavaFault]
                ELSE [ok |-> TRUE, val |-> RemoteResult(rmethod, rargs, remote)]]

\* Variant of Forward: a faulting call re-creates the remote object.
Forward_rebind(method, args, rmethod, rargs) ==
    /\ ncalls < MaxCalls
    /\ \E fault \in BOOLEAN :
         LET inv == Invocation(rmethod, rargs, fault)
         IN /\ lastCall' = [method |-> method, args |-> args, remote |-> <<inv>>,
                            outcome |-> IF fault THEN "raised" ELSE "returned",
                            value |-> inv.result.val]
            /\ remote' = IF fault THEN remote ELSE RemoteStore(rmethod, rargs, remote)
            /\ lastSet' = Recorded(method, args, fault)
            /\ helper' = IF fault THEN [helper EXCEPT !.java_obj = "jOcrHelper2"] ELSE helper
    /\ ncalls' = ncalls + 1
    /\ UNCHANGED <<coords, jvmCoords>>
    /\ UNCHANGED scriptVars

\* `return self._java_obj.<rmethod>(*rargs)`
Forward(method, args, rmethod, rargs) ==
    /\ ncalls < MaxCalls
    /\ \E fault \in BOOLEAN :
         LET inv == Invocation(rmethod, rargs, fault)
         IN /\ lastCall' = [method |-> method, args |-> args, remote |-> <<inv>>,
                            outcome |-> IF fault THEN "raised" ELSE "returned",
                            value |-> inv.result.val]
            /\ remote' = IF fault THEN remote ELSE RemoteStore(rmethod, rargs, remote)
            /\ lastSet' = Recorded(method, args, fault)
    /\ ncalls' = ncalls + 1
    /\ UNCHANGED <<helper, coords, jvmCoords>>
    /\ UNCHANGED scriptVars

\* An exception raised on the local side before any remote call.
RaiseLocal(method, args, error) ==
    /\ ncalls < MaxCalls
    /\ lastCall' = [method |-> method, args |-> args, remote |-> <<>>,
                    outcome |-> "raised", value |-> error]
    /\ ncalls' = ncalls + 1
    /\ UNCHANGED <<helper, coords, jvmCoords, remote, lastSet>>
    /\ UNCHANGED scriptVars

\* Variant of createDataset: accepts anything that carries _jsparkSession.
createDataset_duck(spark, input_path) ==
    IF ~HasJSparkSession(spark)
    THEN RaiseLocal("createDataset", <<spark, input_path>>, "spark must be SparkSession")
    ELSE /\ ncalls < MaxCalls
         /\ \E fault \in BOOLEAN :
              LET inv == Invocation("createDataset", <<JSparkSession(spark), input_path>>, fault)
              IN lastCall' = [method |-> "createDataset", args |-> <<spark, input_path>>,
                              remote |-> <<inv>>,
                              outcome |-> IF fault THEN "raised" ELSE "returned",
                              value |-> IF fault THEN inv.result.val
                                        ELSE [jdf |-> inv.result.val, sql_ctx |-> spark]]
         /\ ncalls' = ncalls + 1
         /\ UNCHANGED <<helper, coords, jvmCoords, remote, lastSet>>
         /\ UNCHANGED scriptVars

\* Variant of createDataset: pairs the table with one fixed session.
createDataset_global(spark, input_path) ==
    IF TypeOf(spark) # "SparkSession"
    THEN RaiseLocal("createDataset", <<spark, input_path>>, "spark must be SparkSession")
    ELSE /\ ncalls < MaxCalls
         /\ \E fault \in BOOLEAN :
              LET inv == Invocation("createDataset", <<JSparkSession(spark), input_path>>, fault)
              IN lastCall' = [method |-> "createDataset", args |-> <<spark, input_path>>,
                              remote |-> <<inv>>,
                              outcome |-> IF fault THEN "raised" ELSE "returned",
                              value |-> IF fault THEN inv.result.val
                                        ELSE [jdf |-> inv.result.val, sql_ctx |-> "spark"]]
         /\ ncalls' = ncalls + 1
         /\ UNCHANGED <<helper, coords, jvmCoords, remote, lastSet>>
         /\ UNCHANGED scriptVars

createDataset(spark, input_path) ==
    IF TypeOf(spark) # "SparkSession"
    THEN RaiseLocal("createDataset", <<spark, input_path>>, "spark must be SparkSession")
    ELSE /\ ncalls < MaxCalls
         /\ \E fault \in BOOLEAN :
              LET inv == Invocation("createDataset", <<JSparkSession(spark), input_path>>, fault)
              IN lastCall' = [method |-> "createDataset", args |-> <<spark, input_path>>,
                              remote |-> <<inv>>,
                              outcome |-> IF fault THEN "raised" ELSE "returned",
                              value |-> IF fault THEN inv.result.val
                                        ELSE [jdf |-> inv.result.val, sql_ctx |-> spark]]
         /\ ncalls' = ncalls + 1
         /\ UNCHANGED <<helper, coords, jvmCoords, remote, lastSet>>
         /\ UNCHANGED scriptVars

\* Variant of createMap: a faulting remote call is attempted a second time.
createMap_retry(input_path) ==
    /\ ncalls < MaxCalls
    /\ \E fault \in BOOLEAN, again \in BOOLEAN :
         LET first  == Invocation("createMap", <<input_path>>, fault)
             second == Invocation("createMap", <<input_path>>, again)
             final  == IF fault THEN second ELSE first
         IN lastCall' = [method |-> "createMap", args |-> <<input_path>>,
                         remote |-> IF fault THEN <<first, second>> ELSE <<first>>,
                         outcome |-> IF final.result.ok THEN "returned" ELSE "raised",
                         value |-> final.result.val]
    /\ ncalls' = ncalls + 1
    /\ UNCHANGED <<helper, coords, jvmCoords, remote, lastSet>>
    /\ UNCHANGED scriptVars

createMap(input_path) == Forward("createMap", <<input_path>>, "createMap", <<input_path>>)

setPreferredMethod(value) == Forward("setPreferredMethod", <<value>>, "setPreferredMethod", <<value>>)
getPreferredMethod == Forward("getPreferredMethod", <<>>, "getPreferredMethod", <<>>)
setFallbackMethod(value) == Forward("setFallbackMethod", <<value>>, "setFallbackMethod", <<value>>)
getFallbackMethod == Forward("getFallbackMethod", <<>>, "getFallbackMethod", <<>>)
setMinSizeBeforeFallback(value) == Forward("setMinSizeBeforeFallback", <<value>>, "setMinSizeBeforeFallback", <<value>>)
getMinSizeBeforeFallback == Forward("getMinSizeBeforeFallback", <<>>, "getMinSizeBeforeFallback", <<>>)
setEngineMode(mode) == Forward("setEngineMode", <<mode>>, "setEngineMode", <<mode>>)
getEngineMode == Forward("getEngineMode", <<>>, "getEngineMode", <<>>)
setPageSegMode(mode) == Forward("setPageSegMode", <<mode>>, "setPageSegMode", <<mode>>)
getPageSegMode == Forward("getPageSegMode", <<>>, "getPageSegMode", <<>>)
setPageIteratorLevel(level) == Forward("setPageIteratorLevel", <<level>>, "setPageIteratorLevel", <<level>>)
getPageIteratorLevel == Forward("getPageIteratorLevel", <<>>, "getPageIteratorLevel", <<>>)
setScalingFactor(factor) == Forward("setScalingFactor", <<factor>>, "setScalingFactor", <<factor>>)
setSplitPages(value) == Forward("setSplitPages", <<value>>, "setSplitPages", <<value>>)
\* Variant of getSplitPages: reads the neighbouring option.
getSplitPages_copy == Forward("getSplitPages", <<>>, "getSplitRegions", <<>>)
getSplitPages == Forward("getSplitPages", <<>>, "getSplitPages", <<>>)
setSplitRegions(value) == Forward("setSplitRegions", <<value>>, "setSplitRegions", <<value>>)
getSplitRegions == Forward("getSplitRegions", <<>>, "getSplitRegions", <<>>)

\* The class defines no getScalingFactor: the attribute lookup fails.
getScalingFactor == RaiseLocal("getScalingFactor", <<>>, "AttributeError")

\* useErosion(use, k_size=2, k_shape=0); given is the caller's argument list.
K_SIZE_DEFAULT == 2
K_SHAPE_DEFAULT == 0
useErosion(given) ==
    LET use     == given[1]
        k_size  == IF Len(given) >= 2 THEN given[2] ELSE K_SIZE_DEFAULT
        k_shape == IF Len(given) >= 3 THEN given[3] ELSE K_SHAPE_DEFAULT
    IN Forward("useErosion", given, "useErosion", <<use, k_size, k_shape>>)

\* Variant of drawRectangle: the handles are collected in reverse order.
drawRectangle_reversed(spark, path, coordinates) ==
    LET n == Len(coordinates)
        jcoords == [k \in 1 .. n |-> coords[coordinates[n + 1 - k]].java_obj]
    IN IF ~HasJSparkSession(spark)
       THEN RaiseLocal("drawRectangle", <<spark, path, coordinates>>, "AttributeError")
       ELSE Forward("drawRectangle", <<spark, path, coordinates>>,
                    "drawRectangle", <<JSparkSession(spark), path, jcoords>>)

\* coordinates is a sequence of indices into coords.
drawRectangle(spark, path, coordinates) ==
    LET jcoords == [k \in 1 .. Len(coordinates) |-> coords[coordinates[k]].java_obj]
    IN IF ~HasJSparkSession(spark)
       THEN RaiseLocal("drawRectangle", <<spark, path, coordinates>>, "AttributeError")
       ELSE Forward("drawRectangle", <<spark, path, coordinates>>,
                    "drawRectangle", <<JSparkSession(spark), path, jcoords>>)

----------------------------------------------------------------------------
(* Coordinate *)

HandleBase == 100

\* Variant of Coordinate: width and height stored in each other's attribute.
Coordinate_swapped(i, p, x, y, w, h) ==
    /\ ncalls < MaxCalls
    /\ Len(coords) < MaxCoords
    /\ jvmCoords' = Append(jvmCoords, [class |-> CoordinateClass, args |-> <<i, p, x, y, w, h>>])
    /\ coords' = Append(coords, [java_obj |-> HandleBase + Len(jvmCoords) + 1,
                                 i |-> i, p |-> p, x |-> x, y |-> y, w |-> h, h |-> w])
    /\ lastCall' = [method |-> "Coordinate", args |-> <<i, p, x, y, w, h>>,
                    remote |-> <<[target |-> CoordinateClass, method |-> "new",
                                  args |-> <<i, p, x, y, w, h>>,
                                  result |-> [ok |-> TRUE, val |-> HandleBase + Len(jvmCoords) + 1]]>>,
                    outcome |-> "returned", value |-> HandleBase + Len(jvmCoords) + 1]
    /\ ncalls' = ncalls + 1
    /\ UNCHANGED <<helper, remote, lastSet>>
    /\ UNCHANGED scriptVars

Coordinate(i, p, x, y, w, h) ==
    /\ ncalls < MaxCalls
    /\ Len(coords) < MaxCoords
    /\ jvmCoords' = Append(jvmCoords, [class |-> CoordinateClass, args |-> <<i, p, x, y, w, h>>])
    /\ coords' = Append(coords, [java_obj |-> HandleBase + Len(jvmCoords) + 1,
                                 i |-> i, p |-> p, x |-> x, y |-> y, w |-> w, h |-> h])
    /\ lastCall' = [method |-> "Coordinate", args |-> <<i, p, x, y, w, h>>,
                    remote |-> <<[target |-> CoordinateClass, method |-> "new",
                                  args |-> <<i, p, x, y, w, h>>,
                                  result |-> [ok |-> TRUE, val |-> HandleBase + Len(jvmCoords) + 1]]>>,
                    outcome |-> "returned", value |-> HandleBase + Len(jvmCoords) + 1]
    /\ ncalls' = ncalls + 1
    /\ UNCHANGED <<helper, remote, lastSet>>
    /\ UNCHANGED scriptVars

----------------------------------------------------------------------------
\* Argument lists callers use.
ErosionArgs == { <<u>> : u \in BOOLEAN } \cup { <<u, 3>> : u \in BOOLEAN }
                  \cup { <<u, 3, 1>> : u \in BOOLEAN }
CoordLists == UNION { [1 .. n -> 1 .. Len(coords)] : n \in 0 .. MaxCoords }

InitOcr ==
    /\ helper = [class |-> OcrHelperClass, java_obj |-> "jOcrHelper"]
    /\ coords = <<>>
    /\ jvmCoords = <<>>
    /\ remote = [o \in Options |-> Default]
    /\ lastCall = NoCall
    /\ lastSet = [o \in Options |-> Default]
    /\ ncalls = 0

InitIdle ==
    /\ pc = "idle"
    /\ TRAIN = FALSE
    /\ sizes = [num_train_samples |-> Unread, num_valid_samples |-> Unread,
                vocab_size |-> Unread]
    /\ session = "none"
    /\ graph = EmptyGraph
    /\ params = "none"
    /\ ckpt = TRUE
    /\ log = <<>>

Init == InitOcr /\ InitIdle

Next ==
    \/ \E s \in SparkArgs, path \in Paths : createDataset(s, path)
    \/ \E path \in Paths : createMap(path)
    \/ \E v \in OptionValues : setPreferredMethod(v)
    \/ getPreferredMethod
    \/ \E v \in OptionValues : setFallbackMethod(v)
    \/ getFallbackMethod
    \/ \E v \in OptionValues : setMinSizeBeforeFallback(v)
    \/ getMinSizeBeforeFallback
    \/ \E v \in OptionValues : setEngineMode(v)
    \/ getEngineMode
    \/ \E v \in OptionValues : setPageSegMode(v)
    \/ getPageSegMode
    \/ \E v \in OptionValues : setPageIteratorLevel(v)
    \/ getPageIteratorLevel
    \/ \E v \in OptionValues : setScalingFactor(v)
    \/ getScalingFactor
    \/ \E v \in OptionValues : setSplitPages(v)
    \/ getSplitPages
    \/ \E v \in OptionValues : setSplitRegions(v)
    \/ getSplitRegions
    \/ \E given \in ErosionArgs : useErosion(given)
    \/ \E s \in SparkArgs, path \in Paths, cs \in CoordLists : drawRectangle(s, path, cs)
    \/ \E t \in CoordInputs : Coordinate(t[1], t[2], t[3], t[4], t[5], t[6])

Spec == Init /\ [][Next]_vars

----------------------------------------------------------------------------
(* run.py: the spell-checker script, one action per statement *)

LineCounts == 0 .. MaxLines

\* A statement that completes and passes control to the next one.
Step(from, name, to) ==
    /\ pc = from
    /\ log' = Append(log, name)
    /\ pc' = to

\* An uncaught exception ends the script.
Crash(from, name) ==
    /\ pc = from
    /\ log' = Append(log, name)
    /\ pc' = "crashed"
    /\ UNCHANGED <<TRAIN, sizes, session, graph, params, ckpt>>
    /\ UNCHANGED ocrVars

ReadTrain ==
    /\ \E n \in LineCounts :
         sizes' = [sizes EXCEPT !.num_train_samples = n]
    /\ Step("L29", "read_train", "L31")
    /\ UNCHANGED <<TRAIN, session, graph, params, ckpt>>
    /\ UNCHANGED ocrVars

ReadValid ==
    /\ \E n \in LineCounts :
         sizes' = [sizes EXCEPT !.num_valid_samples = n]
    /\ Step("L31", "read_valid", "L35")
    /\ UNCHANGED <<TRAIN, session, graph, params, ckpt>>
    /\ UNCHANGED ocrVars

ReadVocab ==
    /\ \E n \in LineCounts :
         sizes' = [sizes EXCEPT !.vocab_size = n]
    /\ Step("L35", "read_vocab", "L71")
    /\ UNCHANGED <<TRAIN, session, graph, params, ckpt>>
    /\ UNCHANGED ocrVars

\* open() of a missing corpus or vocabulary file
ReadFails ==
    \/ Crash("L29", "IOError")
    \/ Crash("L31", "IOError")
    \/ Crash("L35", "IOError")

\* Variant of Branch: the training block is never entered.
Branch_never ==
    /\ Step("L71", "if_TRAIN", "L82")
    /\ UNCHANGED <<TRAIN, sizes, session, graph, params, ckpt>>
    /\ UNCHANGED ocrVars

\* `if TRAIN:`
Branch ==
    /\ Step("L71", "if_TRAIN", IF TRAIN THEN "L73" ELSE "L82")
    /\ UNCHANGED <<TRAIN, sizes, session, graph, params, ckpt>>
    /\ UNCHANGED ocrVars

TrainSession ==
    /\ Step("L73", "train_session", "L74")
    /\ session' = "train"
    /\ params' = "none"
    /\ UNCHANGED <<TRAIN, sizes, graph, ckpt>>
    /\ UNCHANGED ocrVars

\* `model = create_model(sess)` in either session: the call enters create_model
CallCreateModel ==
    /\ \/ /\ session = "train"
          /\ Step("L74", "call_create_model", "L56")
       \/ /\ session = "infer"
          /\ Step("L87", "call_create_model", "L56")
    /\ UNCHANGED <<TRAIN, sizes, session, graph, params, ckpt>>
    /\ UNCHANGED ocrVars

\* `_model = RNNLM(vocab_size=vocab_size, ..., num_train_samples=..., ...)`
BuildModel ==
    /\ Step("L56", "RNNLM", "L68")
    /\ graph' = [built |-> TRUE, vocab_size |-> sizes.vocab_size,
                 num_train_samples |-> sizes.num_train_samples,
                 num_valid_samples |-> sizes.num_valid_samples]
    /\ UNCHANGED <<TRAIN, sizes, session, params, ckpt>>
    /\ UNCHANGED ocrVars

\* `sess.run(tf.global_variables_initializer())` and `return _model`
InitVariables ==
    /\ Step("L68", "global_variables_initializer",
            IF session = "train" THEN "L75" ELSE "L88")
    /\ params' = "initialized"
    /\ UNCHANGED <<TRAIN, sizes, session, graph, ckpt>>
    /\ UNCHANGED ocrVars

LoadClasses ==
    /\ \/ Step("L75", "load_classes", "L76")
       \/ Step("L88", "load_classes", "L89")
    /\ UNCHANGED <<TRAIN, sizes, session, graph, params, ckpt>>
    /\ UNCHANGED ocrVars

LoadVocab ==
    /\ \/ Step("L76", "load_vocab", "L79")
       \/ Step("L89", "load_vocab", "L90")
    /\ UNCHANGED <<TRAIN, sizes, session, graph, params, ckpt>>
    /\ UNCHANGED ocrVars

MakeSaver ==
    /\ \/ Step("L79", "Saver", "L80")
       \/ Step("L90", "Saver", "L91")
    /\ UNCHANGED <<TRAIN, sizes, session, graph, params, ckpt>>
    /\ UNCHANGED ocrVars

\* `model.batch_train(sess, saver, train_ids, valid_ids)`, then the with-block ends
BatchTrain ==
    /\ Step("L80", "batch_train", "L82")
    /\ params' = "trained"
    /\ ckpt' = TRUE
    /\ session' = "none"
    /\ UNCHANGED <<TRAIN, sizes, graph>>
    /\ UNCHANGED ocrVars

\* `tf.reset_default_graph()`
ResetGraph ==
    /\ Step("L82", "reset_default_graph", "L86")
    /\ graph' = EmptyGraph
    /\ UNCHANGED <<TRAIN, sizes, session, params, ckpt>>
    /\ UNCHANGED ocrVars

InferSession ==
    /\ Step("L86", "infer_session", "L87")
    /\ session' = "infer"
    /\ params' = "none"
    /\ UNCHANGED <<TRAIN, sizes, graph, ckpt>>
    /\ UNCHANGED ocrVars

\* Variant of Restore: the initializer is run again after the restore.
Restore_reinit ==
    /\ ckpt
    /\ pc = "L91"
    /\ log' = log \o <<"restore", "global_variables_initializer">>
    /\ pc' = "L92"
    /\ params' = "initialized"
    /\ UNCHANGED <<TRAIN, sizes, session, graph, ckpt>>
    /\ UNCHANGED ocrVars

\* `saver.restore(sess, model_path)`
Restore ==
    /\ ckpt
    /\ Step("L91", "restore", "L92")
    /\ params' = "restored"
    /\ UNCHANGED <<TRAIN, sizes, session, graph, ckpt>>
    /\ UNCHANGED ocrVars

\* no checkpoint at model_path
RestoreFails ==
    /\ ~ckpt
    /\ Crash("L91", "NotFoundError")

SaveBundle ==
    /\ Step("L92", "save_bundle", "L93")
    /\ UNCHANGED <<TRAIN, sizes, session, graph, params, ckpt>>
    /\ UNCHANGED ocrVars

TestSentences ==
    /\ Step("L93", "test_sentences", "L94")
    /\ UNCHANGED <<TRAIN, sizes, session, graph, params, ckpt>>
    /\ UNCHANGED ocrVars

\* `model.predict(sess, sents)`, then the with-block and the script end
Predict ==
    /\ Step("L94", "predict", "done")
    /\ session' = "none"
    /\ UNCHANGED <<TRAIN, sizes, graph, params, ckpt>>
    /\ UNCHANGED ocrVars

ScriptInit ==
    /\ InitOcr
    /\ pc = "L29"
    /\ TRAIN \in BOOLEAN
    /\ sizes = [num_train_samples |-> Unread, num_valid_samples |-> Unread,
                vocab_size |-> Unread]
    /\ session = "none"
    /\ graph = EmptyGraph
    /\ params = "none"
    /\ ckpt \in BOOLEAN
    /\ log = <<>>

ScriptNext ==
    \/ ReadTrain
    \/ ReadValid
    \/ ReadVocab
    \/ ReadFails
    \/ Branch
    \/ TrainSession
    \/ CallCreateModel
    \/ BuildModel
    \/ InitVariables
    \/ LoadClasses
    \/ LoadVocab
    \/ MakeSaver
    \/ BatchTrain
    \/ ResetGraph
    \/ InferSession
    \/ Restore
    \/ RestoreFails
    \/ SaveBundle
    \/ TestSentences
    \/ Predict

ScriptSpec == ScriptInit /\ [][ScriptNext]_vars

----------------------------------------------------------------------------
(* Properties *)

\* The methods class OcrHelper defines.
ProxyMethods ==
    {"createDataset", "createMap", "useErosion", "drawRectangle",
     "setPreferredMethod", "getPreferredMethod", "setFallbackMethod", "getFallbackMethod",
     "setMinSizeBeforeFallback", "getMinSizeBeforeFallback", "setEngineMode", "getEngineMode",
     "setPageSegMode", "getPageSegMode", "setPageIteratorLevel", "getPageIteratorLevel",
     "setScalingFactor", "setSplitPages", "getSplitPages", "setSplitRegions", "getSplitRegions"}

\* Methods whose body is `return self._java_obj.<same name>(<same arguments>)`.
DirectMethods == ProxyMethods \ {"createDataset", "useErosion", "drawRectangle"}

IsCall(m) == lastCall.method = m
Returned  == lastCall.outcome = "returned"
Raised    == lastCall.outcome = "raised"
OneRemote == Len(lastCall.remote) = 1
OnHelper  == lastCall.remote[1].target = helper.java_obj

\* C1: createDataset with a first argument that is not a SparkSession raises
\* the generic error "spark must be SparkSession", makes no remote call, and
\* leaves the proxy, the remote object and the coordinates as they were.
C1_RejectsNonSession ==
    [][ (/\ ncalls' # ncalls
         /\ lastCall'.method = "createDataset"
         /\ TypeOf(lastCall'.args[1]) # "SparkSession")
        => (/\ lastCall'.outcome = "raised"
            /\ lastCall'.value = "spark must be SparkSession"
            /\ lastCall'.remote = <<>>
            /\ helper' = helper
            /\ remote' = remote
            /\ coords' = coords
            /\ jvmCoords' = jvmCoords) ]_vars

C1_Witness ==
    /\ IsCall("createDataset")
    /\ lastCall.args[1] = "duck"
    /\ Raised
    /\ \E o \in Options : remote[o] # Default

Has(name) == \E k \in 1 .. Len(log) : log[k] = name
Pos(name) == { k \in 1 .. Len(log) : log[k] = name }
Count(name) == Cardinality(Pos(name))

C3_ExactlyOneBranch ==
    pc = "done"
    => /\ Has("predict")
       /\ IF TRAIN THEN Has("batch_train") /\ ~Has("restore")
                   ELSE Has("restore") /\ ~Has("batch_train")

\* C3 amended: training runs exactly when TRAIN is true; the checkpoint
\* restore runs in both cases (after the training when TRAIN is true), exactly
\* once, and the prediction follows the restore.
C3_TrainOptionalRestoreAlways ==
    /\ Has("batch_train") => TRAIN
    /\ Count("batch_train") <= 1 /\ Count("restore") <= 1 /\ Count("predict") <= 1
    /\ \A j \in Pos("restore") : TRAIN => \E i \in Pos("batch_train") : i < j
    /\ \A j \in Pos("predict") : \E i \in Pos("restore") : i < j
    /\ pc = "done" => /\ Has("predict")
                      /\ Has("restore")
                      /\ TRAIN <=> Has("batch_train")

C3_Witness ==
    /\ pc = "done"
    /\ TRAIN
    /\ Has("batch_train")
    /\ Has("restore")
    /\ Has("predict")

\* C4: a Coordinate hands i, p, x, y, w, h to the remote constructor in that
\* order and keeps the same six values as its attributes; in every later state
\* the attributes equal what the remote instance was constructed with.
C4_CoordinatePreserved ==
    /\ Len(jvmCoords) = Len(coords)
    /\ \A k \in 1 .. Len(coords) :
         LET c == coords[k]
             j == jvmCoords[c.java_obj - HandleBase]
         IN /\ j.class = CoordinateClass
            /\ j.args = <<c.i, c.p, c.x, c.y, c.w, c.h>>
    /\ IsCall("Coordinate")
         => /\ jvmCoords[Len(jvmCoords)].args = lastCall.args
            /\ lastCall.remote[1].args = lastCall.args

C4_Witness ==
    /\ Len(coords) = 2
    /\ coords[1].w # coords[1].h
    /\ coords[1].i # coords[2].i
    /\ IsCall("drawRectangle")

\* C5: a proxy call that gets past its local checks makes exactly one remote
\* call; when that call faults the caller receives that very fault.
PassesLocalChecks ==
    CASE IsCall("createDataset") -> TypeOf(lastCall.args[1]) = "SparkSession"
      [] IsCall("drawRectangle") -> HasJSparkSession(lastCall.args[1])
      [] OTHER                   -> TRUE

C5_OneCallFaultUnmodified ==
    (lastCall.method \in ProxyMethods /\ PassesLocalChecks)
    => /\ OneRemote
       /\ OnHelper
       /\ lastCall.remote[1].result.ok => Returned
       /\ ~lastCall.remote[1].result.ok
            => /\ Raised
               /\ lastCall.value = lastCall.remote[1].result.val
               /\ lastCall.value = JavaFault

C5_Witness ==
    /\ IsCall("createMap")
    /\ OneRemote
    /\ ~lastCall.remote[1].result.ok
    /\ Raised

\* C6: each option listed as a getter/setter pair has both methods, and
\* get<Option>() answers the value of the latest set<Option>(v) that returned,
\* whatever other calls came in between (the remote get itself not faulting).
PairedOptions ==
    {"PreferredMethod", "FallbackMethod", "PageSegMode", "PageIteratorLevel",
     "ScalingFactor", "SplitPages", "SplitRegions"}

GetterAnswers(o) ==
    (/\ lastCall.method \in DOMAIN RemoteGetters
     /\ RemoteGetters[lastCall.method] = o
     /\ lastSet[o] # Default
     /\ \A k \in 1 .. Len(lastCall.remote) : lastCall.remote[k].result.ok)
    => /\ Returned
       /\ lastCall.value = lastSet[o]

C6_SetThenGet == \A o \in PairedOptions : GetterAnswers(o)

\* The listed options other than the scaling factor do round-trip.
C6_Others == \A o \in PairedOptions \ {"ScalingFactor"} : GetterAnswers(o)

\* C7: createDataset with a SparkSession calls the remote createDataset once
\* with (spark._jsparkSession, input_path) and returns a DataFrame made of the
\* remote result and the session that was passed in.
C7_CreateDataset ==
    (IsCall("createDataset") /\ TypeOf(lastCall.args[1]) = "SparkSession")
    => /\ OneRemote
       /\ OnHelper
       /\ lastCall.remote[1].method = "createDataset"
       /\ lastCall.remote[1].args = <<JSparkSession(lastCall.args[1]), lastCall.args[2]>>
       /\ lastCall.remote[1].result.ok
            => /\ Returned
               /\ lastCall.value = [jdf |-> lastCall.remote[1].result.val,
                                    sql_ctx |-> lastCall.args[1]]

C7_Witness ==
    /\ IsCall("createDataset")
    /\ lastCall.args[1] = "spark2"
    /\ Returned
    /\ lastCall.value.sql_ctx = "spark2"

\* C8: the remote handle of the OcrHelper and of every Coordinate is the one
\* bound at construction; no step, failing calls included, changes it.
C8_HandleFixed ==
    [][ /\ helper'.java_obj = helper.java_obj
        /\ helper.java_obj = "jOcrHelper"
        /\ Len(coords') >= Len(coords)
        /\ \A k \in 1 .. Len(coords) : coords'[k].java_obj = coords[k].java_obj ]_vars

C8_Witness ==
    /\ Len(coords) >= 1
    /\ lastCall.method \in ProxyMethods
    /\ Raised
    /\ OneRemote
    /\ helper.java_obj = "jOcrHelper"
    /\ coords[1].java_obj = HandleBase + 1

\* C9: the three line counts are read before any model is built; in the
\* inference session the variable initialization precedes the restore and
\* nothing re-initializes afterwards; predict runs only after the restore;
\* with TRAIN the graph is reset between the training and the inference model.
C9_Order ==
    /\ \A j \in Pos("RNNLM") :
         \A r \in {"read_train", "read_valid", "read_vocab"} :
            \E i \in Pos(r) : i < j
    /\ graph.built => /\ graph.vocab_size = sizes.vocab_size
                      /\ graph.vocab_size # Unread
                      /\ graph.num_train_samples # Unread
                      /\ graph.num_valid_samples # Unread
    /\ \A j \in Pos("restore") :
         /\ \E s \in Pos("infer_session") :
               \E i \in Pos("global_variables_initializer") : s < i /\ i < j
         /\ \A i \in Pos("global_variables_initializer") : i < j
    /\ (Has("restore") /\ pc # "crashed") => params = "restored"
    /\ \A j \in Pos("predict") : \E i \in Pos("restore") : i < j
    /\ \A t \in Pos("batch_train") :
         /\ TRAIN
         /\ \A m \in Pos("RNNLM") : m > t => \E g \in Pos("reset_default_graph") : t < g /\ g < m
         /\ pc = "done" => \E g \in Pos("reset_default_graph") : t < g

C9_Witness ==
    /\ pc = "done"
    /\ TRAIN
    /\ Count("global_variables_initializer") = 2
    /\ params = "restored"
    /\ sizes.vocab_size = 2

\* C10: drawRectangle calls the remote drawRectangle once with the session's
\* remote handle, the path, and the list of the coordinates' remote handles,
\* same length and order; the session argument is not type-checked.
C10_DrawRectangle ==
    (IsCall("drawRectangle") /\ HasJSparkSession(lastCall.args[1]))
    => /\ OneRemote
       /\ OnHelper
       /\ lastCall.remote[1].method = "drawRectangle"
       /\ Len(lastCall.remote[1].args) = 3
       /\ lastCall.remote[1].args[1] = JSparkSession(lastCall.args[1])
       /\ lastCall.remote[1].args[2] = lastCall.args[2]
       /\ Len(lastCall.remote[1].args[3]) = Len(lastCall.args[3])
       /\ \A k \in 1 .. Len(lastCall.args[3]) :
            lastCall.remote[1].args[3][k] = coords[lastCall.args[3][k]].java_obj

C10_Witness ==
    /\ IsCall("drawRectangle")
    /\ TypeOf(lastCall.args[1]) # "SparkSession"
    /\ OneRemote
    /\ Len(lastCall.args[3]) = 2
    /\ lastCall.args[3][1] # lastCall.args[3][2]
    /\ Returned

====
